---- MODULE Spec2Model ----
(***************************************************************************)
(* Token service (Auth/jwt.js), gate middleware (Auth/auth.js) and the     *)
(* login route (routes/employeeRoutes.js) of the Grocery Management        *)
(* System, with the parts of the jsonwebtoken library they call.           *)
(*                                                                         *)
(* JavaScript values are records tagged by `kind`; a string is a sequence  *)
(* of chunks (a space, a piece of literal text, or a compact JWT), so that *)
(* String.prototype.split(" ") is computed, not assumed.  Time is the      *)
(* NumericDate clock jsonwebtoken reads: Math.floor(Date.now() / 1000).    *)
(* An HMAC is an ideal MAC: the tag of (alg, key, header, payload).        *)
(***************************************************************************)
EXTENDS Integers, Sequences, FiniteSets, TLC

VARIABLES
    clock,      \* Math.floor(Date.now() / 1000), read by jwt.sign and jwt.verify
    secretKey,  \* Auth/jwt.js: the module-level signing secret
    issued,     \* tokens handed out by 200 login responses, each with the
                \* payload, the secret and the time of its generateToken call
    req,        \* per in-flight request: header, req.user, res, next, verifyToken calls
    loginRes,   \* the last POST /employees/login: its body and its response
    db          \* the Orders and Products collections, documents in natural order

vars == <<clock, secretKey, issued, req, loginRes, db>>

----------------------------------------------------------------------------
(* Bounds *)

\* tokens handed out and still held by clients
MaxIssued == 1
\* requests in flight at once
MaxReqs == 1

----------------------------------------------------------------------------
(* Program constants *)

\* jwt.sign(..., { expiresIn: "4h" }): ms("4h") / 1000 seconds
FourHours == 14400

JamesSecretKey == "JamesSecretKey"

\* HMAC algorithms jwt.verify allows for a plain-string secret
HsAlgorithms == {"HS256", "HS384", "HS512"}

----------------------------------------------------------------------------
(* JavaScript values *)

Undefined == [kind |-> "undefined"]
Null == [kind |-> "null"]
Str(chunks) == [kind |-> "string", chunks |-> chunks]
Obj(fields) == [kind |-> "object"] @@ fields

SP == [c |-> "space"]
Lit(text) == [c |-> "text", text |-> text]

\* x == null (loose equality): true of null and undefined only
LooseNull(x) == x.kind \in {"undefined", "null"}

\* ToBoolean(x)
Truthy(x) ==
    CASE x.kind \in {"undefined", "null"} -> FALSE
      [] x.kind = "string" -> x.chunks # <<>>
      [] OTHER -> TRUE

\* s.split(" "): the pieces between single spaces, empty pieces kept
RECURSIVE SplitSpace(_)
SplitSpace(s) ==
    IF s = <<>> THEN << <<>> >>
    ELSE IF Head(s) = SP THEN << <<>> >> \o SplitSpace(Tail(s))
    ELSE LET rest == SplitSpace(Tail(s))
         IN  << <<Head(s)>> \o rest[1] >> \o Tail(rest)

\* array[i] with a 0-based index: undefined past the end
Index(arr, i) == IF i + 1 <= Len(arr) THEN Str(arr[i + 1]) ELSE Undefined

----------------------------------------------------------------------------
(* jsonwebtoken, as Auth/jwt.js calls it *)

\* The HMAC tag of header.payload under key: an ideal MAC, equal only to the
\* tag of the same algorithm, key, header and payload.
Hmac(alg, key, header, payload) ==
    [mac |-> "tag", alg |-> alg, key |-> key, header |-> header, payload |-> payload]

\* A compact JWT "header.payload.signature" as one chunk of a string
Jwt(header, payload, signature) ==
    [c |-> "jwt", header |-> header, payload |-> payload, signature |-> signature]

\* jwt.sign(payload, secret, { expiresIn: "4h" }): HS256 header, a copy of the
\* payload with iat = now and exp = iat + 4h added, signed with the secret.
JwtSign(payload, secret, now) ==
    LET header == [alg |-> "HS256", typ |-> "JWT"]
        claims == [iat |-> now, exp |-> now + FourHours] @@ payload
    IN  Str(<< Jwt(header, claims, Hmac("HS256", secret, header, claims)) >>)

Thrown(name, message) == [ok |-> FALSE, name |-> name, message |-> message]
Returned(value) == [ok |-> TRUE, value |-> value]

\* jwt.verify(token, secret), synchronous form: returns the payload or throws.
JwtVerify(token, secret, now) ==
    IF ~Truthy(token) THEN Thrown("JsonWebTokenError", "jwt must be provided")
    ELSE IF token.kind # "string" THEN Thrown("JsonWebTokenError", "jwt must be a string")
    ELSE IF Len(token.chunks) # 1 \/ token.chunks[1].c # "jwt"
         THEN Thrown("JsonWebTokenError", "jwt malformed")
    ELSE LET t == token.chunks[1]
         IN  IF t.signature.mac = "empty"
                 THEN Thrown("JsonWebTokenError", "jwt signature is required")
             ELSE IF t.header.alg \notin HsAlgorithms
                 THEN Thrown("JsonWebTokenError", "invalid algorithm")
             ELSE IF t.signature # Hmac(t.header.alg, secret, t.header, t.payload)
                 THEN Thrown("JsonWebTokenError", "invalid signature")
             ELSE IF now >= t.payload.exp
                 THEN Thrown("TokenExpiredError", "jwt expired")
             ELSE Returned(t.payload)

----------------------------------------------------------------------------
(* Auth/jwt.js *)

\* Faulty variant of generateToken: signs with another secret than
\* verifyToken reads.
generateToken_OtherSecret(payload, secret, now) == JwtSign(payload, "otherSecret", now)

generateToken(payload, secret, now) == JwtSign(payload, secret, now)

\* Faulty variants of verifyToken, for mutation analysis of the properties.
\* jwt.decode in place of jwt.verify: no signature check, no expiry check.
verifyToken_DecodeOnly(token, secret, now) ==
    IF token.kind = "string" /\ Len(token.chunks) = 1 /\ token.chunks[1].c = "jwt"
        THEN token.chunks[1].payload
        ELSE Null

\* jwt.verify(token, secretKey, { ignoreExpiration: true }): exp is not
\* compared with the clock (no exp is at or before time 0).
verifyToken_IgnoreExpiration(token, secret, now) ==
    LET r == JwtVerify(token, secret, 0)
    IN  IF r.ok THEN r.value ELSE Null

\* The catch block swallows JsonWebTokenError only: TokenExpiredError
\* propagates to the caller.
verifyToken_RethrowExpired(token, secret, now) ==
    LET r == JwtVerify(token, secret, now)
    IN  IF r.ok THEN r.value
        ELSE IF r.name = "TokenExpiredError" THEN [kind |-> "thrown", name |-> r.name]
        ELSE Null

\* A key ring: a token verifies under the current or any earlier secret.
verifyToken_AnyKnownSecret(token, secret, now) ==
    LET ring == {"JamesSecretKey", "rotated-1"}
    IN  IF \E k \in ring : JwtVerify(token, k, now).ok
            THEN (CHOOSE r \in {JwtVerify(token, k, now) : k \in ring} : r.ok).value
            ELSE Null

\* try { return jwt.verify(token, secretKey) } catch (error) { return null }
verifyToken(token, secret, now) ==
    LET r == JwtVerify(token, secret, now)
    IN  IF r.ok THEN r.value ELSE Null

----------------------------------------------------------------------------
(* Auth/auth.js *)

\* A request before the gate has run: no req.user, nothing sent, next not
\* called, verifyToken not called.
NewReq(authorization) ==
    [pc |-> "gate", authorization |-> authorization, user |-> Undefined,
     sent |-> <<>>, nextCalls |-> 0, verified |-> <<>>]

IdleReq == [NewReq(Undefined) EXCEPT !.pc = "idle"]

\* Faulty variants of authenticateToken, for mutation analysis of the
\* properties; the model itself uses authenticateToken below.
\* The `token == null` test is missing: an absent token goes to verifyToken.
authenticateToken_NoNullCheck(rq, secret, now) ==
    LET authHeader == rq.authorization
        token == IF Truthy(authHeader)
                     THEN Index(SplitSpace(authHeader.chunks), 1)
                     ELSE authHeader
        decoded == verifyToken(token, secret, now)
        call == [token |-> token, result |-> decoded]
    IN  IF Truthy(decoded)
            THEN [rq EXCEPT !.pc = "handler", !.user = decoded,
                            !.nextCalls = @ + 1, !.verified = Append(@, call)]
            ELSE [rq EXCEPT !.pc = "done", !.sent = Append(@, 403),
                            !.verified = Append(@, call)]

\* The `return` before res.sendStatus(401) is missing: the function goes on
\* to verifyToken and answers a second time.
authenticateToken_NoReturn(rq, secret, now) ==
    LET authHeader == rq.authorization
        token == IF Truthy(authHeader)
                     THEN Index(SplitSpace(authHeader.chunks), 1)
                     ELSE authHeader
        first == IF LooseNull(token) THEN [rq EXCEPT !.sent = Append(@, 401)] ELSE rq
        decoded == verifyToken(token, secret, now)
        call == [token |-> token, result |-> decoded]
    IN  IF Truthy(decoded)
            THEN [first EXCEPT !.pc = "handler", !.user = decoded,
                               !.nextCalls = @ + 1, !.verified = Append(@, call)]
            ELSE [first EXCEPT !.pc = "done", !.sent = Append(@, 403),
                               !.verified = Append(@, call)]

\* next() is forgotten on the admit branch.
authenticateToken_NoNext(rq, secret, now) ==
    LET authHeader == rq.authorization
        token == IF Truthy(authHeader)
                     THEN Index(SplitSpace(authHeader.chunks), 1)
                     ELSE authHeader
    IN  IF LooseNull(token)
            THEN [rq EXCEPT !.pc = "done", !.sent = Append(@, 401)]
        ELSE LET decoded == verifyToken(token, secret, now)
                 call == [token |-> token, result |-> decoded]
             IN  IF Truthy(decoded)
                     THEN [rq EXCEPT !.pc = "handler", !.user = decoded,
                                     !.verified = Append(@, call)]
                     ELSE [rq EXCEPT !.pc = "done", !.sent = Append(@, 403),
                                     !.verified = Append(@, call)]

\* req.user = decoded is assigned before decoded is tested.
authenticateToken_UserBeforeTest(rq, secret, now) ==
    LET authHeader == rq.authorization
        token == IF Truthy(authHeader)
                     THEN Index(SplitSpace(authHeader.chunks), 1)
                     ELSE authHeader
    IN  IF LooseNull(token)
            THEN [rq EXCEPT !.pc = "done", !.sent = Append(@, 401)]
        ELSE LET decoded == verifyToken(token, secret, now)
                 call == [token |-> token, result |-> decoded]
             IN  IF Truthy(decoded)
                     THEN [rq EXCEPT !.pc = "handler", !.user = decoded,
                                     !.nextCalls = @ + 1,
                                     !.verified = Append(@, call)]
                     ELSE [rq EXCEPT !.pc = "done", !.user = decoded,
                                     !.sent = Append(@, 403),
                                     !.verified = Append(@, call)]

\* The two status codes are swapped on the verify-failed branch.
authenticateToken_401ForInvalid(rq, secret, now) ==
    LET authHeader == rq.authorization
        token == IF Truthy(authHeader)
                     THEN Index(SplitSpace(authHeader.chunks), 1)
                     ELSE authHeader
    IN  IF LooseNull(token)
            THEN [rq EXCEPT !.pc = "done", !.sent = Append(@, 401)]
        ELSE LET decoded == verifyToken(token, secret, now)
                 call == [token |-> token, result |-> decoded]
             IN  IF Truthy(decoded)
                     THEN [rq EXCEPT !.pc = "handler", !.user = decoded,
                                     !.nextCalls = @ + 1,
                                     !.verified = Append(@, call)]
                     ELSE [rq EXCEPT !.pc = "done", !.sent = Append(@, 401),
                                     !.verified = Append(@, call)]

\* authenticateToken(req, res, next), start to end (it is synchronous): the
\* request as it leaves the middleware.  `verified` logs each verifyToken
\* call: its argument and what it returned.
\* A gate that keeps the last identity it decoded in a variable shared by
\* all requests, and reuses it while some admitted request is in flight.
authenticateToken_CachedIdentity(rq, secret, now) ==
    LET authHeader == rq.authorization
        token == IF Truthy(authHeader) THEN Index(SplitSpace(authHeader.chunks), 1)
                                       ELSE authHeader
        cached == {req[q].user : q \in {q \in DOMAIN req : Truthy(req[q].user)}}
    IN  IF LooseNull(token) THEN [rq EXCEPT !.pc = "done", !.sent = Append(@, 401)]
        ELSE LET decoded == IF cached # {} THEN CHOOSE u \in cached : TRUE
                                           ELSE verifyToken(token, secret, now)
                 call == [token |-> token, result |-> decoded]
             IN  IF Truthy(decoded)
                     THEN [rq EXCEPT !.pc = "handler", !.user = decoded,
                                     !.nextCalls = @ + 1, !.verified = Append(@, call)]
                     ELSE [rq EXCEPT !.pc = "done", !.sent = Append(@, 403),
                                     !.verified = Append(@, call)]

authenticateToken(rq, secret, now) ==
    LET authHeader == rq.authorization
        token == IF Truthy(authHeader)
                     THEN Index(SplitSpace(authHeader.chunks), 1)
                     ELSE authHeader
    IN  IF LooseNull(token)
            THEN [rq EXCEPT !.pc = "done", !.sent = Append(@, 401)]
        ELSE LET decoded == verifyToken(token, secret, now)
                 call == [token |-> token, result |-> decoded]
             IN  IF Truthy(decoded)
                     THEN [rq EXCEPT !.pc = "handler", !.user = decoded,
                                     !.nextCalls = @ + 1,
                                     !.verified = Append(@, call)]
                     ELSE [rq EXCEPT !.pc = "done", !.sent = Append(@, 403),
                                     !.verified = Append(@, call)]

----------------------------------------------------------------------------
(* Inputs *)

ReqIds == 1..MaxReqs

\* The instants at which the clock is read: each multiple of the TTL and the
\* second after it, so that a token is seen one second before its expiry, at
\* it, and after it.
Instants == {0, 1, FourHours, FourHours + 1}

\* The Employees collection (models/employee.js: Username unique, Password),
\* in natural order.
Employees ==
    <<[Username |-> "alice", Password |-> "pwA"],
      [Username |-> "bob", Password |-> "pwB"]>>

\* A value of the JSON body used as a query condition: a plain string, or
\* the operator object { "$ne": null } (bodyParser.json() passes objects on,
\* and the route hands req.body.Username to findOne as it is).
Eq(text) == [op |-> "$eq", value |-> Str(<<Lit(text)>>)]
NeNull == [op |-> "$ne", value |-> Null]

LoginUsernames == {Eq("alice"), Eq("bob"), Eq("carol"), NeNull}
LoginPasswords == {"pwA", "pwB"}

\* The secrets the process is started with, in order of rotation; a rotation
\* installs a secret never used before.
Secrets == <<JamesSecretKey, "rotated-1">>
SecretIndex(k) == CHOOSE i \in 1..Len(Secrets) : Secrets[i] = k

\* The header `Bearer <token>`
Bearer(token) == Str(<<Lit("Bearer"), SP>> \o token.chunks)

\* What a client can do to a token it holds without knowing the secret.
EmptySig == [mac |-> "empty"]
AlterSignature(j) == [j EXCEPT !.signature.mac = "flipped"]
Tamperings(j) ==
    {AlterSignature(j),
     [j EXCEPT !.signature = Hmac(j.header.alg, "attackerKey", j.header, j.payload)],
     [j EXCEPT !.payload.exp = @ + FourHours],
     [j EXCEPT !.payload.Username = "admin"],
     [j EXCEPT !.header.alg = "none", !.signature = EmptySig]}

Genuine == {i.token.chunks[1] : i \in issued}
Forged == UNION {Tamperings(j) : j \in Genuine}

\* The Authorization headers clients send: absent, or a string.
Headers ==
    {Undefined, Str(<<>>), Str(<<Lit("Bearer")>>), Str(<<Lit("Bearer"), SP>>),
     Str(<<Lit("Bearer"), SP, Lit("garbage")>>)}
    \cup {Str(<<Lit("Bearer"), SP, t>>) : t \in Genuine \cup Forged}
    \cup UNION {{Str(<<Lit("Basic"), SP, t>>),
                 Str(<<t>>),
                 Str(<<Lit("Bearer"), SP, SP, t>>)} : t \in Genuine}

\* No login has been answered yet.
NoLogin == [Username |-> Null, Password |-> "", res |-> [status |-> 0]]

\* Both collections empty, no _id generated yet.
EmptyDb == [orders |-> <<>>, products |-> <<>>, used |-> {}]

----------------------------------------------------------------------------
(* The state machine *)

Init ==
    /\ clock = 0
    /\ secretKey = JamesSecretKey
    /\ issued = {}
    /\ req = [r \in ReqIds |-> IdleReq]
    /\ loginRes = NoLogin
    /\ db = EmptyDb

\* Time passes between two reads of Date.now().
Tick ==
    /\ \E t \in Instants : t > clock /\ clock' = t
    /\ UNCHANGED <<secretKey, issued, req, loginRes, db>>

\* A document field value satisfies a query condition.
Matches(cond, value) ==
    LET stored == Str(<<Lit(value)>>)
    IN  IF cond.op = "$eq" THEN stored = cond.value ELSE stored # cond.value

\* Employees.findOne({ Username }): the first matching document, or null
findOne(Username) ==
    LET hits == SelectSeq(Employees, LAMBDA e : Matches(Username, e.Username))
    IN  IF hits # <<>> THEN Obj(hits[1]) ELSE Null

\* The response of router.post("/login") to { Username, Password }; dbOk is
\* whether the findOne promise resolves.
loginResponse(Username, Password, dbOk, secret, now) ==
    IF ~dbOk THEN [status |-> 400, message |-> "db error"]
    ELSE LET employee == findOne(Username)
         IN  IF ~Truthy(employee)
                 THEN [status |-> 401, message |-> "No username found"]
             ELSE IF Password # employee.Password
                 THEN [status |-> 401, message |-> "Invalid user ID or Password"]
             ELSE [status |-> 200,
                   token |-> generateToken(Obj([Username |-> employee.Username]),
                                           secret, now)]

\* POST /employees/login: the client keeps the token of a 200 response.
LoginStep(Username, Password, dbOk) ==
    LET res == loginResponse(Username, Password, dbOk, secretKey, clock)
        grant == [payload |-> Obj([Username |-> findOne(Username).Username]),
                  token |-> res.token,
                  secret |-> secretKey, at |-> clock]
    IN  /\ IF res.status = 200
               THEN /\ Cardinality(issued \cup {grant}) <= MaxIssued
                    /\ issued' = issued \cup {grant}
               ELSE issued' = issued
        /\ UNCHANGED <<clock, secretKey, req, db>>

\* POST /employees/login, the response not looked at
Login(Username, Password, dbOk) ==
    /\ LoginStep(Username, Password, dbOk)
    /\ UNCHANGED loginRes

\* POST /employees/login, with the request body and the response kept
LoginAnswered(Username, Password, dbOk) ==
    /\ LoginStep(Username, Password, dbOk)
    /\ loginRes' = [Username |-> Username, Password |-> Password,
                    res |-> loginResponse(Username, Password, dbOk, secretKey, clock)]

\* A request to a protected route arrives with the given Authorization
\* header and runs through authenticateToken.
Request(r, authorization) ==
    /\ req[r].pc = "idle"
    /\ req' = [req EXCEPT ![r] = authenticateToken(NewReq(authorization), secretKey, clock)]
    /\ UNCHANGED <<clock, secretKey, issued, loginRes, db>>

\* The protected route handler that next() passes control to answers (the
\* success path of the handler).
Handler(r) ==
    /\ req[r].pc = "handler"
    /\ req' = [req EXCEPT ![r].pc = "done", ![r].sent = Append(@, 200)]
    /\ UNCHANGED <<clock, secretKey, issued, loginRes, db>>

\* The response has been written and the request and response objects are
\* dropped (res.sendStatus / res.json end the cycle).
Close(r) ==
    /\ req[r].pc = "done"
    /\ req' = [req EXCEPT ![r] = IdleReq]
    /\ UNCHANGED <<clock, secretKey, issued, loginRes, db>>

\* The secret is rotated: secretKey is a module constant, so the process is
\* restarted with the next secret.  Requests in flight are lost with the old
\* process; the tokens clients hold are not.
Rotate ==
    /\ SecretIndex(secretKey) < Len(Secrets)
    /\ secretKey' = Secrets[SecretIndex(secretKey) + 1]
    /\ req' = [r \in ReqIds |-> IdleReq]
    /\ UNCHANGED <<clock, issued, loginRes, db>>

Next ==
    \/ Tick
    \/ \E u \in LoginUsernames, p \in LoginPasswords, dbOk \in BOOLEAN : Login(u, p, dbOk)
    \/ \E r \in ReqIds, h \in Headers : Request(r, h)
    \/ \E r \in ReqIds : Handler(r)
    \/ \E r \in ReqIds : Close(r)

Spec == Init /\ [][Next]_vars

NextRotate == Next \/ Rotate

SpecRotate == Init /\ [][NextRotate]_vars

\* The login route alone, each response kept.
NextLogin ==
    \/ Tick
    \/ \E u \in LoginUsernames, p \in LoginPasswords, dbOk \in BOOLEAN :
           LoginAnswered(u, p, dbOk)

SpecLogin == Init /\ [][NextLogin]_vars

----------------------------------------------------------------------------
(* routes/orderRoutes.js and routes/productRoutes.js *)

\* A document is [key, data]: key is OrderNo for an order and _id for a
\* product, data stands for the other fields.  A request body is [data, full]:
\* full says that the body carries every required field.
OrderNos == {7}
ProductIds == {"p1"}
Contents == {"a", "b"}

Route(router, method, path) == [router |-> router, method |-> method, path |-> path]

\* The routes the two routers register.
Routes ==
    {Route(c, m[1], m[2]) :
        c \in {"orders", "products"},
        m \in {<<"GET", "/">>, <<"GET", "/:key">>, <<"POST", "/">>,
               <<"PUT", "/:key">>, <<"PATCH", "/:key">>, <<"DELETE", "/:key">>}}

\* DELETE /orders/:OrderNo registered without the gate.
Middleware_OpenDelete(route) ==
    IF route = Route("orders", "DELETE", "/:key") THEN <<>> ELSE <<"authenticateToken">>

\* The middleware registered between the path and the handler:
\* router.METHOD(path, authenticateToken, async (req, res) => ...).
Middleware(route) == <<"authenticateToken">>

\* The request as it reaches a router.
RouteReq(route, key, body, authorization) ==
    NewReq(authorization)
        @@ [route |-> route, key |-> key, body |-> body, entered |-> FALSE,
            ops |-> <<>>, original |-> Null, res |-> Null, ghost |-> Null]

Respond(rq, status) == [rq EXCEPT !.pc = "done", !.sent = Append(@, status)]
Op(rq, name) == [rq EXCEPT !.ops = Append(@, name)]

\* The handler up to its first await: PUT checks requiredFields first.
Enter(rq) ==
    LET entered == [rq EXCEPT !.entered = TRUE]
    IN  IF rq.route.method = "PUT" /\ ~rq.body.full
            THEN Respond(entered, 400)
            ELSE entered

\* Express runs the route's middleware, then the handler if next() was called.
Dispatch(rq, secret, now) ==
    LET gated == IF Middleware(rq.route) = <<>>
                     THEN [rq EXCEPT !.pc = "handler"]
                     ELSE authenticateToken(rq, secret, now)
    IN  IF gated.pc = "handler" THEN Enter(gated) ELSE gated

\* mongoose: the first document with the key, in natural order, or null.
Hits(c, key) == SelectSeq(db[c], LAMBDA d : d.key = key)
FirstHit(c, key) == IF Hits(c, key) = <<>> THEN Null ELSE Hits(c, key)[1]
FirstIndex(c, key) ==
    CHOOSE i \in 1..Len(db[c]) :
        db[c][i].key = key /\ \A j \in 1..(i - 1) : db[c][j].key # key

\* { $set: body } applied to the first document with the key
SetFirst(c, key, body) == [db EXCEPT ![c][FirstIndex(c, key)].data = body.data]

\* the first document with the key removed
RemoveFirst(c, key) ==
    LET i == FirstIndex(c, key)
    IN  [db EXCEPT ![c] = SubSeq(@, 1, i - 1) \o SubSeq(@, i + 1, Len(@))]

\* new Model(req.body).save(): a product gets a fresh _id, an order keeps the
\* OrderNo of its body.
NewKey(c, key) == IF c = "products" THEN CHOOSE id \in ProductIds : id \notin db.used ELSE key
HasRoom(c) ==
    IF c = "products" THEN ProductIds \ db.used # {}
                      ELSE Len(db.orders) < Cardinality(OrderNos)
Insert(c, key, body) ==
    LET k == NewKey(c, key)
    IN  [db EXCEPT ![c] = Append(@, [key |-> k, data |-> body.data]),
                   !.used = IF c = "products" THEN @ \cup {k} ELSE @]

\* Request r is in the handler of the route, waiting for the database.
Pending(r, method, path, pc) ==
    /\ req[r].pc = pc
    /\ "route" \in DOMAIN req[r]
    /\ req[r].route.method = method
    /\ req[r].route.path = path

\* GET /: find({}) answers and the handler responds.
GetAll(r, dbOk) ==
    /\ Pending(r, "GET", "/", "handler")
    /\ req' = [req EXCEPT ![r] = Respond(Op(@, "find"), IF dbOk THEN 200 ELSE 500)]
    /\ UNCHANGED <<clock, secretKey, issued, loginRes, db>>

\* GET /:key: findOne / findById answers and the handler responds.
GetOne(r, dbOk) ==
    LET c == req[r].route.router
    IN  /\ Pending(r, "GET", "/:key", "handler")
        /\ req' = [req EXCEPT ![r] =
                      Respond(Op(@, "findOne"),
                              IF ~dbOk THEN 500
                              ELSE IF FirstHit(c, req[r].key) = Null THEN 404 ELSE 200)]
        /\ UNCHANGED <<clock, secretKey, issued, loginRes, db>>

\* POST /: save() validates the required fields, then inserts.
Post(r, dbOk) ==
    LET c == req[r].route.router
        rq == req[r]
    IN  /\ Pending(r, "POST", "/", "handler")
        /\ IF ~rq.body.full
               THEN /\ req' = [req EXCEPT ![r] = Respond(@, 400)]
                    /\ db' = db
               ELSE IF ~dbOk
               THEN /\ req' = [req EXCEPT ![r] = Respond(Op(@, "save"), 400)]
                    /\ db' = db
               ELSE /\ HasRoom(c)
                    /\ req' = [req EXCEPT ![r] = Respond(Op(@, "save"), 201)]
                    /\ db' = Insert(c, rq.key, rq.body)
        /\ UNCHANGED <<clock, secretKey, issued, loginRes>>

\* PUT /:key: findOneAndUpdate / findByIdAndUpdate with new: false.
Put(r, dbOk) ==
    LET c == req[r].route.router
        rq == req[r]
        hit == FirstHit(c, rq.key)
    IN  /\ Pending(r, "PUT", "/:key", "handler")
        /\ IF ~dbOk
               THEN /\ req' = [req EXCEPT ![r] = Respond(Op(@, "findOneAndUpdate"), 500)]
                    /\ db' = db
               ELSE IF hit = Null
               THEN /\ req' = [req EXCEPT ![r] = Respond(Op(@, "findOneAndUpdate"), 404)]
                    /\ db' = db
               ELSE /\ req' = [req EXCEPT ![r] =
                                 [Respond(Op(@, "findOneAndUpdate"), 200)
                                     EXCEPT !.res = [Original |-> hit, Updated |-> rq.body]]]
                    /\ db' = SetFirst(c, rq.key, rq.body)
        /\ UNCHANGED <<clock, secretKey, issued, loginRes>>

\* PATCH /:key, first await: findOne / findById reads the original.
PatchFind(r, dbOk) ==
    LET c == req[r].route.router
        hit == FirstHit(c, req[r].key)
    IN  /\ Pending(r, "PATCH", "/:key", "handler")
        /\ req' = [req EXCEPT ![r] =
                      IF ~dbOk THEN Respond(Op(@, "findOne"), 500)
                      ELSE IF hit = Null THEN Respond(Op(@, "findOne"), 404)
                      ELSE [Op(@, "findOne") EXCEPT !.pc = "update", !.original = hit]]
        /\ UNCHANGED <<clock, secretKey, issued, loginRes, db>>

\* PATCH /:key, second await: findOneAndUpdate / findByIdAndUpdate with
\* new: true.  ghost keeps the stored document just before and just after
\* the update.
PatchUpdate(r, dbOk) ==
    LET c == req[r].route.router
        rq == req[r]
        hit == FirstHit(c, rq.key)
        updated == [hit EXCEPT !.data = rq.body.data]
    IN  /\ Pending(r, "PATCH", "/:key", "update")
        /\ IF ~dbOk
               THEN /\ req' = [req EXCEPT ![r] = Respond(Op(@, "findOneAndUpdate"), 500)]
                    /\ db' = db
               ELSE IF hit = Null
               THEN /\ req' = [req EXCEPT ![r] = Respond(Op(@, "findOneAndUpdate"), 404)]
                    /\ db' = db
               ELSE /\ req' = [req EXCEPT ![r] =
                                 [Respond(Op(@, "findOneAndUpdate"), 200)
                                     EXCEPT !.res = [Original |-> rq.original,
                                                     Updated |-> updated],
                                            !.ghost = [before |-> hit, after |-> updated]]]
                    /\ db' = SetFirst(c, rq.key, rq.body)
        /\ UNCHANGED <<clock, secretKey, issued, loginRes>>

\* DELETE /:key: deleteOne / findByIdAndDelete.
Delete(r, dbOk) ==
    LET c == req[r].route.router
        hit == FirstHit(c, req[r].key)
    IN  /\ Pending(r, "DELETE", "/:key", "handler")
        /\ IF ~dbOk
               THEN /\ req' = [req EXCEPT ![r] = Respond(Op(@, "deleteOne"), 500)]
                    /\ db' = db
               ELSE IF hit = Null
               THEN /\ req' = [req EXCEPT ![r] = Respond(Op(@, "deleteOne"), 404)]
                    /\ db' = db
               ELSE /\ req' = [req EXCEPT ![r] = Respond(Op(@, "deleteOne"), 200)]
                    /\ db' = RemoveFirst(c, req[r].key)
        /\ UNCHANGED <<clock, secretKey, issued, loginRes>>

\* What a request to the route carries besides its Authorization header.
KeysFor(route) ==
    IF route.router = "products"
        THEN IF route.path = "/" THEN {""} ELSE ProductIds
        ELSE IF route.path = "/" /\ route.method = "GET" THEN {0} ELSE OrderNos
BodiesFor(route, data) ==
    IF route.method \in {"POST", "PUT"}
        THEN {[data |-> d, full |-> f] : d \in data, f \in BOOLEAN}
        ELSE IF route.method = "PATCH"
        THEN {[data |-> d, full |-> FALSE] : d \in data}
        ELSE {Null}

\* The headers sent to the routers: none, a token as issued, a forged one.
RouteHeaders ==
    {Undefined} \cup {Bearer(Str(<<t>>)) : t \in Genuine}
                \cup {Bearer(Str(<<AlterSignature(t)>>)) : t \in Genuine}

\* A request reaches a router; its body's content is drawn from data.
Arrive(r, route, data, authorization) ==
    /\ req[r].pc = "idle"
    /\ \E key \in KeysFor(route), body \in BodiesFor(route, data) :
           req' = [req EXCEPT ![r] =
                      Dispatch(RouteReq(route, key, body, authorization), secretKey, clock)]
    /\ UNCHANGED <<clock, secretKey, issued, loginRes, db>>

\* The two routers behind the gate, bodies with one content.
NextRoutes ==
    \/ \E u \in LoginUsernames, p \in LoginPasswords : Login(u, p, TRUE)
    \/ \E r \in DOMAIN req, route \in Routes, authorization \in RouteHeaders :
           Arrive(r, route, {"a"}, authorization)
    \/ \E r \in DOMAIN req, dbOk \in BOOLEAN : GetAll(r, dbOk)
    \/ \E r \in DOMAIN req, dbOk \in BOOLEAN : GetOne(r, dbOk)
    \/ \E r \in DOMAIN req, dbOk \in BOOLEAN : Post(r, dbOk)
    \/ \E r \in DOMAIN req, dbOk \in BOOLEAN : Put(r, dbOk)
    \/ \E r \in DOMAIN req, dbOk \in BOOLEAN : PatchFind(r, dbOk)
    \/ \E r \in DOMAIN req, dbOk \in BOOLEAN : PatchUpdate(r, dbOk)
    \/ \E r \in DOMAIN req, dbOk \in BOOLEAN : Delete(r, dbOk)
    \/ \E r \in DOMAIN req : Close(r)

SpecRoutes == Init /\ [][NextRoutes]_vars

\* Two requests can be inside the server at once: a handler gives up control
\* at each await.
Concurrent == {1, 2}

InitConcurrent ==
    /\ clock = 0
    /\ secretKey = JamesSecretKey
    /\ issued = {}
    /\ req = [r \in Concurrent |-> IdleReq]
    /\ loginRes = NoLogin
    /\ db = EmptyDb

\* Requests overlapping at the gate and in the handlers, as time passes.
NextFlight ==
    \/ Tick
    \/ \E u \in LoginUsernames, p \in LoginPasswords, dbOk \in BOOLEAN : Login(u, p, dbOk)
    \/ \E r \in DOMAIN req, authorization \in Headers : Request(r, authorization)
    \/ \E r \in DOMAIN req : Handler(r)
    \/ \E r \in DOMAIN req : Close(r)

SpecFlight == InitConcurrent /\ [][NextFlight]_vars

\* The routes that write.
Writes == {route \in Routes : route.method # "GET"}

\* Authenticated clients creating, replacing, patching and deleting
\* documents concurrently.
NextPatch ==
    \/ \E e \in {Employees[1]} : Login(Eq(e.Username), e.Password, TRUE)
    \/ \E r \in DOMAIN req, route \in Writes, t \in Genuine :
           Arrive(r, route, Contents, Bearer(Str(<<t>>)))
    \/ \E r \in DOMAIN req, dbOk \in BOOLEAN : Post(r, dbOk)
    \/ \E r \in DOMAIN req, dbOk \in BOOLEAN : Put(r, dbOk)
    \/ \E r \in DOMAIN req, dbOk \in BOOLEAN : PatchFind(r, dbOk)
    \/ \E r \in DOMAIN req, dbOk \in BOOLEAN : PatchUpdate(r, dbOk)
    \/ \E r \in DOMAIN req, dbOk \in BOOLEAN : Delete(r, dbOk)
    \/ \E r \in DOMAIN req : Close(r)

SpecPatch == InitConcurrent /\ [][NextPatch]_vars

----------------------------------------------------------------------------
(* Vocabulary of the properties *)

\* "Bearer <token>" for a token string
\* The header has the shape `Bearer <token>`: the scheme word Bearer, one
\* space, one non-empty token without spaces.
BearerShape(h) ==
    /\ h.kind = "string"
    /\ Len(h.chunks) = 3
    /\ h.chunks[1] = Lit("Bearer")
    /\ h.chunks[2] = SP
    /\ h.chunks[3] # SP

\* The token string is a well-formed compact JWT.
WellFormed(token) ==
    token.kind = "string" /\ Len(token.chunks) = 1 /\ token.chunks[1].c = "jwt"

\* The signature of JWT j is the HMAC of its header and payload under key k.
SignedUnder(j, k) ==
    /\ j.header.alg \in HsAlgorithms
    /\ j.signature = Hmac(j.header.alg, k, j.header, j.payload)

\* The token passes verification at time t under key k: well-formed, signed
\* under k, and t is before its expiry.
Valid(token, k, t) ==
    /\ WellFormed(token)
    /\ SignedUnder(token.chunks[1], k)
    /\ t < token.chunks[1].payload.exp

\* The object carries every field of the payload, with the payload's value.
Carries(object, payload) ==
    /\ object.kind = "object"
    /\ \A f \in DOMAIN payload : f \in DOMAIN object /\ object[f] = payload[f]

\* The header holds the token somewhere among its words.
CarriesToken(h, token) ==
    /\ h.kind = "string"
    /\ \E i \in 1..Len(h.chunks) : h.chunks[i] = token.chunks[1]

Range(seq) == {seq[i] : i \in 1..Len(seq)}

\* The strings verifyToken is tried on: empty, not a JWT, the tokens issued,
\* and the forgeries made from them.
TokenStrings ==
    {Str(<<>>), Str(<<Lit("garbage")>>)}
    \cup {Str(<<t>>) : t \in Genuine \cup Forged}
    \cup {Str(<<t, Lit("x")>>) : t \in Genuine}

\* Request r has been through authenticateToken.
Gated(r) == req[r].pc # "idle"

\* The step takes request r through authenticateToken.
GateStep(r) == req[r].pc = "idle" /\ req'[r].pc # "idle"

----------------------------------------------------------------------------
(* Properties *)

\* C1: a request with no Authorization header is answered 401, and
\* verifyToken is not called, req.user is not set, next is not called and
\* the protected handler does not run.
C1_NoHeaderIs401 ==
    \A r \in ReqIds :
        (Gated(r) /\ req[r].authorization = Undefined)
            => /\ req[r].pc = "done"
               /\ req[r].sent = <<401>>
               /\ req[r].verified = <<>>
               /\ req[r].user = Undefined
               /\ req[r].nextCalls = 0

C1_Witness ==
    \E r \in ReqIds :
        req[r].pc = "done" /\ req[r].authorization = Undefined /\ req[r].sent = <<401>>

\* C2: a request whose Authorization header is present but not of the shape
\* `Bearer <token>` is answered 401 and never admitted.
C2_NonBearerIs401 ==
    \A r \in ReqIds :
        (Gated(r) /\ req[r].authorization.kind = "string"
                  /\ ~BearerShape(req[r].authorization))
            => /\ req[r].sent = <<401>>
               /\ req[r].user = Undefined
               /\ req[r].nextCalls = 0

\* C3: a request whose token verifyToken returns null for is answered 403,
\* req.user is not set and next is not called.
C3_InvalidTokenIs403 ==
    \A r \in ReqIds :
        (Gated(r) /\ req[r].verified # <<>> /\ req[r].verified[1].result = Null)
            => /\ req[r].pc = "done"
               /\ req[r].sent = <<403>>
               /\ req[r].user = Undefined
               /\ req[r].nextCalls = 0

C3_Witness ==
    \E r \in ReqIds :
        /\ req[r].authorization = Bearer(Str(<<Lit("garbage")>>))
        /\ req[r].verified # <<>> /\ req[r].verified[1].result = Null
        /\ req[r].sent = <<403>>

\* C4: a request carrying a token that generateToken minted for identity i
\* and that has not expired gets no response from the gate, gets a req.user
\* carrying identity i, and next is called exactly once.
C4_FreshTokenAdmitted ==
    [][\A r \in ReqIds, g \in issued :
         (/\ GateStep(r)
          /\ req'[r].authorization = Bearer(g.token)
          /\ clock < g.at + FourHours)
            => /\ req'[r].sent = <<>>
               /\ req'[r].nextCalls = 1
               /\ req'[r].pc = "handler"
               /\ Carries(req'[r].user, g.payload)]_vars

C4_Witness ==
    \E r \in ReqIds, g \in issued :
        /\ req[r].authorization = Bearer(g.token)
        /\ req[r].pc = "handler"
        /\ req[r].sent = <<>>
        /\ req[r].nextCalls = 1
        /\ Carries(req[r].user, g.payload)

\* C5: req.user is set only by the gate, only to the result of the one
\* verifyToken call of that request on a token of its Authorization header,
\* only when that token's signature matches the secret and its expiry has
\* not elapsed at that moment; a request with req.user set was never
\* answered 401 or 403.
C5_UserOnlyIfVerified ==
    [][\A r \in ReqIds :
         req'[r].user # Undefined
            => /\ Len(req'[r].verified) = 1
               /\ req'[r].verified[1].result = req'[r].user
               /\ WellFormed(req'[r].verified[1].token)
               /\ CarriesToken(req'[r].authorization, req'[r].verified[1].token)
               /\ req'[r].user = req'[r].verified[1].token.chunks[1].payload
               /\ 401 \notin Range(req'[r].sent)
               /\ 403 \notin Range(req'[r].sent)
               /\ req[r].user = Undefined
                    => /\ GateStep(r)
                       /\ Valid(req'[r].verified[1].token, secretKey, clock)]_vars

C5_Witness ==
    \E r \in ReqIds :
        /\ req[r].user # Undefined
        /\ Len(req[r].verified) = 1
        /\ req[r].verified[1].result = req[r].user

\* C6 as stated: verifyToken(generateToken(i)) is exactly i, verified at the
\* second of issuance under the same secret.
C6_RoundTripExact ==
    \A g \in issued :
        (g.at = clock /\ g.secret = secretKey)
            => verifyToken(g.token, secretKey, clock) = g.payload

\* C6 as amended: verifyToken(generateToken(i)) is i with the two claims
\* jwt.sign adds, iat = the time of issuance and exp = iat + 4 hours; every
\* field of i comes back unchanged.
C6_RoundTripClaims ==
    \A g \in issued :
        (g.at = clock /\ g.secret = secretKey)
            => LET d == verifyToken(g.token, secretKey, clock)
               IN  /\ Carries(d, g.payload)
                   /\ DOMAIN d = DOMAIN g.payload \cup {"iat", "exp"}
                   /\ d.iat = g.at
                   /\ d.exp = g.at + FourHours

C6_Witness ==
    \E g \in issued :
        /\ g.at = clock /\ g.secret = secretKey
        /\ verifyToken(g.token, secretKey, clock).Username = g.payload.Username

\* C7: a token issued at t0 carries exp = t0 + 4 hours; verifyToken returns
\* null for it at every time later than t0 + 4 hours, and a request carrying
\* it then is answered 403.
C7_ExpiredTokenIs403 ==
    [][/\ \A g \in issued' :
            /\ g.token.chunks[1].payload.exp = g.at + FourHours
            /\ \A t \in Instants :
                   t > g.at + FourHours => verifyToken(g.token, secretKey', t) = Null
       /\ \A r \in ReqIds, g \in issued :
            (/\ GateStep(r)
             /\ req'[r].authorization = Bearer(g.token)
             /\ clock > g.at + FourHours)
               => /\ req'[r].sent = <<403>>
                  /\ req'[r].user = Undefined
                  /\ req'[r].nextCalls = 0]_vars

C7_Witness ==
    \E r \in ReqIds, g \in issued :
        /\ req[r].authorization = Bearer(g.token)
        /\ clock > g.at + FourHours
        /\ req[r].sent = <<403>>

\* The signature segments a client can put in place of a token's own.
AlteredSignatures(j) ==
    {[j.signature EXCEPT !.mac = "flipped"],
     Hmac(j.header.alg, "attackerKey", j.header, j.payload),
     EmptySig}

\* C8: an issued token with its signature segment altered makes verifyToken
\* return null, at any time; and a request is admitted only on a token whose
\* header and claims are signed under the process secret.
C8_AlteredSignatureInvalid ==
    /\ \A g \in issued, t \in Instants :
           \A sig \in AlteredSignatures(g.token.chunks[1]) :
               verifyToken(Str(<<[g.token.chunks[1] EXCEPT !.signature = sig]>>),
                           secretKey, t) = Null
    /\ \A r \in ReqIds :
           (Gated(r) /\ (req[r].user # Undefined \/ req[r].nextCalls > 0))
               => /\ req[r].verified # <<>>
                  /\ WellFormed(req[r].verified[1].token)
                  /\ SignedUnder(req[r].verified[1].token.chunks[1], secretKey)

C8_Witness ==
    \E r \in ReqIds, g \in issued :
        /\ req[r].authorization = Bearer(Str(<<AlterSignature(g.token.chunks[1])>>))
        /\ clock < g.at + FourHours
        /\ req[r].sent = <<403>>
        /\ req[r].verified[1].result = Null

\* C9: verifyToken returns the decoded claims or null on every token string
\* and never throws; a malformed token, a signature mismatch and an elapsed
\* expiry all give null, and the gate answers 403 for each of them.
C9_VerifyTotal ==
    /\ \A token \in TokenStrings, t \in Instants :
           LET d == verifyToken(token, secretKey, t)
           IN  /\ d.kind \in {"null", "object"}
               /\ ~WellFormed(token) => d = Null
               /\ (WellFormed(token) /\ ~SignedUnder(token.chunks[1], secretKey))
                      => d = Null
               /\ (WellFormed(token) /\ t >= token.chunks[1].payload.exp)
                      => d = Null
    /\ \A r \in ReqIds :
           (Gated(r) /\ req[r].verified # <<>>)
              => LET call == req[r].verified[1]
                 IN  /\ call.result.kind \in {"null", "object"}
                     /\ (~WellFormed(call.token)
                            \/ ~SignedUnder(call.token.chunks[1], secretKey))
                           => call.result = Null
                     /\ call.result = Null => req[r].sent = <<403>>

C9_Witness ==
    \E r \in ReqIds, g \in issued :
        /\ req[r].authorization = Bearer(g.token)
        /\ clock >= g.at + FourHours
        /\ req[r].verified # <<>> /\ req[r].verified[1].result = Null
        /\ req[r].sent = <<403>>

\* C10: once the secret has been rotated, verifyToken returns null for every
\* token issued under an earlier secret, and no request carrying such a
\* token is admitted (a `Bearer <token>` request is answered 403).
C10_RotationInvalidates ==
    [][/\ \A g \in issued' :
            g.secret # secretKey'
               => \A t \in Instants : verifyToken(g.token, secretKey', t) = Null
       /\ \A r \in ReqIds, g \in issued :
            (/\ GateStep(r)
             /\ g.secret # secretKey
             /\ CarriesToken(req'[r].authorization, g.token))
               => /\ req'[r].user = Undefined
                  /\ req'[r].nextCalls = 0
                  /\ req'[r].pc = "done"
                  /\ req'[r].authorization = Bearer(g.token)
                       => req'[r].sent = <<403>>]_vars

C10_Witness ==
    \E r \in ReqIds, g \in issued :
        /\ g.secret # secretKey
        /\ clock < g.at + FourHours
        /\ req[r].authorization = Bearer(g.token)
        /\ req[r].sent = <<403>>

\* C14: every invocation of authenticateToken ends in exactly one of three
\* outcomes: it has sent 401, it has sent 403, or it has called next; it
\* never sends a response and calls next, and never sends two responses.
C14_ExactlyOneOutcome ==
    \A r \in DOMAIN req :
        Gated(r)
            => LET gateSent == SelectSeq(req[r].sent, LAMBDA c : c \in {401, 403})
                   sent401 == gateSent = <<401>>
                   sent403 == gateSent = <<403>>
                   called == req[r].nextCalls > 0
               IN  /\ Len(gateSent) <= 1
                   /\ req[r].nextCalls <= 1
                   /\ sent401 \/ sent403 \/ called
                   /\ ~(sent401 /\ called)
                   /\ ~(sent403 /\ called)
                   /\ ~called => req[r].sent = gateSent /\ req[r].pc = "done"

C14_Witness ==
    \E r \in DOMAIN req :
        Gated(r) /\ req[r].sent = <<403>> /\ req[r].nextCalls = 0

\* C12: POST /employees/login answers 200 with a token only when an employee
\* record with the supplied Username exists and the supplied Password equals
\* its stored Password, and the token's identity is that record's Username;
\* in every other case no token is issued and the answer is 401 or 400.
C12_TokenOnlyForMatchingPair ==
    loginRes.res.status # 0
        => \/ /\ loginRes.res.status = 200
              /\ \E i \in 1..Len(Employees) :
                     /\ loginRes.Username = Eq(Employees[i].Username)
                     /\ loginRes.Password = Employees[i].Password
                     /\ WellFormed(loginRes.res.token)
                     /\ loginRes.res.token.chunks[1].payload.Username
                            = Employees[i].Username
           \/ /\ loginRes.res.status \in {400, 401}
              /\ "token" \notin DOMAIN loginRes.res

\* C11: on every route of the orders and products routers authenticateToken
\* runs before the handler: a request whose handler has been entered, or for
\* which a database operation has been issued, was admitted by the gate (next
\* called once, req.user set, no 401 or 403 sent).
C11_NoHandlerWithoutGate ==
    \A r \in DOMAIN req :
        ("route" \in DOMAIN req[r]
            /\ (req[r].entered \/ req[r].ops # <<>> \/ req[r].pc \in {"handler", "update"}))
            => /\ req[r].nextCalls = 1
               /\ Truthy(req[r].user)
               /\ 401 \notin Range(req[r].sent)
               /\ 403 \notin Range(req[r].sent)

\* A request to a route was refused by the gate and nothing was read or written
\* for it; or one was admitted and its handler has used the database.
C11_Witness ==
    \E r \in DOMAIN req :
        /\ "route" \in DOMAIN req[r]
        /\ req[r].route = Route("orders", "DELETE", "/:key")
        /\ req[r].ops = <<"deleteOne">>
        /\ req[r].nextCalls = 1
        /\ db.orders = <<>>
        /\ req[r].sent = <<200>>

\* C15: whenever PATCH /products/:id or PATCH /orders/:OrderNo answers 200,
\* Original_* is the stored document as it was immediately before this
\* request's update and Updated_* the stored document immediately after it,
\* whatever other PUT, PATCH and DELETE requests run concurrently.
C15_PatchReportsOwnUpdate ==
    \A r \in DOMAIN req :
        ("route" \in DOMAIN req[r]
            /\ req[r].route.method = "PATCH"
            /\ req[r].sent = <<200>>)
            => /\ req[r].res.Original = req[r].ghost.before
               /\ req[r].res.Updated = req[r].ghost.after

\* The place of the first space of a header that has one.
FirstSpace(chunks) ==
    CHOOSE i \in 1..Len(chunks) :
        chunks[i] = SP /\ \A j \in 1..(i - 1) : chunks[j] # SP

\* The word between the first space of the header and the next one (or the
\* end of the header).
SecondWord(h) ==
    LET rest == SubSeq(h.chunks, FirstSpace(h.chunks) + 1, Len(h.chunks))
    IN  Str(IF SP \in Range(rest) THEN SubSeq(rest, 1, FirstSpace(rest) - 1) ELSE rest)

\* What the gate does to a request, as a function of the request's own
\* Authorization header h, the secret k and the time t alone.
Verdict(h, k, t) ==
    IF h.kind # "string" \/ (h.chunks # <<>> /\ SP \notin Range(h.chunks))
        THEN [sent |-> <<401>>, nextCalls |-> 0, user |-> Undefined]
    ELSE LET token == IF h.chunks = <<>> THEN h ELSE SecondWord(h)
         IN  IF Valid(token, k, t)
                 THEN [sent |-> <<>>, nextCalls |-> 1, user |-> token.chunks[1].payload]
                 ELSE [sent |-> <<403>>, nextCalls |-> 0, user |-> Undefined]

\* C13: the gate holds no state across requests: with other requests in
\* flight, a request's outcome (401, 403 or next) and the identity attached to
\* it are determined by its own Authorization header, the secret and the
\* clock, and its passage through the gate changes no other request.
C13_GateStateless ==
    [][\A r \in DOMAIN req :
         GateStep(r)
            => /\ \A q \in DOMAIN req \ {r} : req'[q] = req[q]
               /\ [sent |-> req'[r].sent, nextCalls |-> req'[r].nextCalls,
                   user |-> req'[r].user]
                      = Verdict(req'[r].authorization, secretKey, clock)]_vars

\* Two requests with the same header are in flight together, one admitted
\* before the token expired and one refused after.
C13_Witness ==
    \E r, q \in DOMAIN req :
        /\ r # q
        /\ req[r].authorization = req[q].authorization
        /\ req[r].pc = "handler" /\ req[r].nextCalls = 1
        /\ req[q].sent = <<403>>

====
